---- MODULE Spec2Model ----
(***************************************************************************)
(* A model of the AR hotel backend (src/main.py, src/schemas.py): the      *)
(* three seed handlers, the three list handlers, the concierge and the     *)
(* booking quote, run as concurrent HTTP calls over one shared store.       *)
(*                                                                         *)
(* Text whose letters matter (allergens, dietary terms) is a tuple of      *)
(* ASCII codes, so that lower() is a computation.  Money is an integer:   *)
(* thousandths of a currency unit before round(x, 2), hundredths after.    *)
(***************************************************************************)
EXTENDS Integers, Sequences, FiniteSets, TLC

(***************************************************************************)
(* Bounds of the model.                                                    *)
(***************************************************************************)
NumCalls == 3        \* HTTP calls made, each run by a worker of its own
MaxDay == 7          \* check-in / check-out days range over January 1..MaxDay
MaxAddons == 2       \* longest addon list of a quote request
MaxMenu == 4         \* longest stored dish list the concierge is run on
MaxDietary == 2      \* longest dietary list of a preference

Procs == 1..NumCalls

VARIABLES
    db,        \* TRUE when the store handle is set, FALSE when it is None
    store,     \* collection name -> the documents it holds, in stored order
    pc,        \* per call: "idle", "insert", "exps" or "done"
    op,        \* per call: the handler it runs
    req,       \* per call: the request it was handed
    existing,  \* per call: what count_documents returned
    inserted,  \* per call: the seed loop's counter
    menu,      \* per call: the concierge's snapshot of the dish collection
    resp       \* per call: the HTTP response of the finished handler

vars == <<db, store, pc, op, req, existing, inserted, menu, resp>>

(***************************************************************************)
(* Text.                                                                   *)
(***************************************************************************)
fish_lc == <<102, 105, 115, 104>>       \* "fish"
Fish_cap == <<70, 105, 115, 104>>       \* "Fish"
FISH_uc == <<70, 73, 83, 72>>           \* "FISH"
soy_lc == <<115, 111, 121>>             \* "soy"
dairy_lc == <<100, 97, 105, 114, 121>>  \* "dairy"
Dairy_cap == <<68, 97, 105, 114, 121>>  \* "Dairy"

\* str.lower() on ASCII text
lower(s) == [i \in DOMAIN s |-> IF s[i] >= 65 /\ s[i] <= 90 THEN s[i] + 32 ELSE s[i]]

(***************************************************************************)
(* Fixtures of the seed handlers.                                          *)
(***************************************************************************)
Collections == {"room", "dish", "experience"}

rooms ==
    << [name |-> "Sky Suite", price_per_night |-> 899, view |-> "city", capacity |-> 2],
       [name |-> "Ocean Nebula", price_per_night |-> 659, view |-> "ocean", capacity |-> 3] >>

dishes ==
    << [name |-> "Galactic Nigiri", category |-> "main", allergens |-> <<fish_lc, soy_lc>>],
       [name |-> "Quantum Mousse", category |-> "dessert", allergens |-> <<dairy_lc>>] >>

exps ==
    << [title |-> "Zero-Gravity Spa", category |-> "spa"],
       [title |-> "Sky Lounge VR Tour", category |-> "sky lounge"] >>

SeedOps == {"seed_rooms", "seed_dishes", "seed_experiences"}

\* seed_collection with the dish handler's collection name pasted into the
\* experience handler
seed_collection_pasted(o) ==
    CASE o = "seed_rooms" -> "room"
      [] o = "seed_dishes" -> "dish"
      [] o = "seed_experiences" -> "dish"

\* the collection a seed handler counts and inserts into
seed_collection(o) ==
    CASE o = "seed_rooms" -> "room"
      [] o = "seed_dishes" -> "dish"
      [] o = "seed_experiences" -> "experience"

\* the fixture list a seed handler builds
seed_fixtures(o) ==
    CASE o = "seed_rooms" -> rooms
      [] o = "seed_dishes" -> dishes
      [] o = "seed_experiences" -> exps

(***************************************************************************)
(* The document store adapter (database.py).                               *)
(***************************************************************************)
\* create_document(collection, doc): one insert at the end of the collection
create_document(s, coll, doc) == [s EXCEPT ![coll] = Append(@, doc)]

\* db[coll].count_documents({})
count_documents(s, coll) == Len(s[coll])

\* list(db[coll].find({}))
find_all(s, coll) == s[coll]

RECURSIVE SelectSeq2(_, _)
SelectSeq2(docs, filt) ==
    IF docs = <<>> THEN <<>>
    ELSE LET d == Head(docs)
             ok == /\ \A c \in filt.eq : c[1] \in DOMAIN d /\ d[c[1]] = c[2]
                   /\ \A c \in filt.gte : c[1] \in DOMAIN d /\ d[c[1]] >= c[2]
         IN (IF ok THEN <<d>> ELSE <<>>) \o SelectSeq2(Tail(docs), filt)

\* get_documents(collection, filter): the documents matching every condition
get_documents(s, coll, filt) == SelectSeq2(s[coll], filt)

(***************************************************************************)
(* Responses.                                                              *)
(***************************************************************************)
NoResp == [status |-> 0, detail |-> "", body |-> <<>>]
NoReq == [none |-> TRUE]

\* raise HTTPException(status_code=500, detail="Database not configured")
NotConfigured == [status |-> 500, detail |-> "Database not configured", body |-> <<>>]

\* an exception no handler catches: the framework answers 500
InternalServerError == [status |-> 500, detail |-> "Internal Server Error", body |-> <<>>]

Ok(body) == [status |-> 200, detail |-> "", body |-> body]

Init ==
    /\ db \in BOOLEAN
    /\ store = [c \in Collections |-> <<>>]
    /\ pc = [p \in Procs |-> "idle"]
    /\ op = [p \in Procs |-> "none"]
    /\ req = [p \in Procs |-> NoReq]
    /\ existing = [p \in Procs |-> 0]
    /\ inserted = [p \in Procs |-> 0]
    /\ menu = [p \in Procs |-> <<>>]
    /\ resp = [p \in Procs |-> NoResp]

(***************************************************************************)
(* Seeding.                                                                *)
(***************************************************************************)
\* already_seeded comparing against the fixture count instead of 0
already_seeded_full(n) == n > 2

\* if existing > 0: return SeedResponse(inserted=0)
already_seeded(n) == n > 0

\* A seed handler up to its loop: the db check, count_documents and the
\* early return.
SeedStart(p, o) ==
    /\ pc[p] = "idle"
    /\ op' = [op EXCEPT ![p] = o]
    /\ IF ~db
       THEN /\ pc' = [pc EXCEPT ![p] = "done"]
            /\ resp' = [resp EXCEPT ![p] = NotConfigured]
            /\ UNCHANGED existing
       ELSE LET n == count_documents(store, seed_collection(o))
            IN /\ existing' = [existing EXCEPT ![p] = n]
               /\ IF already_seeded(n)
                  THEN /\ pc' = [pc EXCEPT ![p] = "done"]
                       /\ resp' = [resp EXCEPT ![p] = Ok([inserted |-> 0])]
                  ELSE /\ pc' = [pc EXCEPT ![p] = "insert"]
                       /\ UNCHANGED resp
    /\ UNCHANGED <<db, store, req, inserted, menu>>

seed_rooms(p) == SeedStart(p, "seed_rooms")

seed_dishes(p) == SeedStart(p, "seed_dishes")

seed_experiences(p) == SeedStart(p, "seed_experiences")

\* seed_insert with an insert that skips a document the collection already holds
seed_insert_if_absent(p) ==
    /\ pc[p] = "insert"
    /\ LET fx == seed_fixtures(op[p])
           n == inserted[p] + 1
           coll == seed_collection(op[p])
       IN /\ store' = IF \E i \in DOMAIN store[coll] : store[coll][i] = fx[n]
                      THEN store
                      ELSE create_document(store, coll, fx[n])
          /\ inserted' = [inserted EXCEPT ![p] = n]
          /\ IF n = Len(fx)
             THEN /\ pc' = [pc EXCEPT ![p] = "done"]
                  /\ resp' = [resp EXCEPT ![p] = Ok([inserted |-> n])]
             ELSE UNCHANGED <<pc, resp>>
    /\ UNCHANGED <<db, op, req, existing, menu>>

\* One turn of the loop "for r in rooms: create_document(..., r); inserted += 1",
\* and the return after the last turn.
seed_insert(p) ==
    /\ pc[p] = "insert"
    /\ LET fx == seed_fixtures(op[p])
           n == inserted[p] + 1
       IN /\ store' = create_document(store, seed_collection(op[p]), fx[n])
          /\ inserted' = [inserted EXCEPT ![p] = n]
          /\ IF n = Len(fx)
             THEN /\ pc' = [pc EXCEPT ![p] = "done"]
                  /\ resp' = [resp EXCEPT ![p] = Ok([inserted |-> n])]
             ELSE UNCHANGED <<pc, resp>>
    /\ UNCHANGED <<db, op, req, existing, menu>>

(***************************************************************************)
(* The list handlers.                                                      *)
(***************************************************************************)
None == "None"

\* filt = {}; if view: filt["view"] = view; if capacity: filt["capacity"] = {"$gte": capacity}
rooms_filter(view, capacity) ==
    [eq |-> IF view # None /\ view # "" THEN {<<"view", view>>} ELSE {},
     gte |-> IF capacity # 0 THEN {<<"capacity", capacity>>} ELSE {}]

\* filt = {"category": category} if category else {}
category_filter(category) ==
    [eq |-> IF category # None /\ category # "" THEN {<<"category", category>>} ELSE {},
     gte |-> {}]

ListReturn(p, o, r, coll, filt) ==
    /\ pc[p] = "idle"
    /\ pc' = [pc EXCEPT ![p] = "done"]
    /\ op' = [op EXCEPT ![p] = o]
    /\ req' = [req EXCEPT ![p] = r]
    /\ resp' = [resp EXCEPT ![p] =
                  IF ~db THEN NotConfigured ELSE Ok(get_documents(store, coll, filt))]
    /\ UNCHANGED <<db, store, existing, inserted, menu>>

\* an absent capacity and capacity=0 are both falsy: 0 stands for either
list_rooms(p, view, capacity) ==
    ListReturn(p, "list_rooms", [view |-> view, capacity |-> capacity],
               "room", rooms_filter(view, capacity))

list_menu(p, category) ==
    ListReturn(p, "list_menu", [category |-> category], "dish", category_filter(category))

list_experiences(p, category) ==
    ListReturn(p, "list_experiences", [category |-> category],
               "experience", category_filter(category))

(***************************************************************************)
(* The concierge.                                                          *)
(***************************************************************************)
Range(s) == {s[i] : i \in DOMAIN s}

Min(a, b) == IF a < b THEN a ELSE b

Max(a, b) == IF a > b THEN a ELSE b

\* menu[:n]
Prefix(s, n) == SubSeq(s, 1, Min(n, Len(s)))

\* d.get("allergens", [])
allergens_of(d) == IF "allergens" \in DOMAIN d THEN d.allergens ELSE <<>>

\* dish_allowed without lower() on the stored allergen
dish_allowed_as_stored(d, avoid) == ~ \E i \in DOMAIN allergens_of(d) : allergens_of(d)[i] \in avoid

\* not any(a.lower() in avoid for a in d.get("allergens", []))
dish_allowed(d, avoid) == ~ \E i \in DOMAIN allergens_of(d) : lower(allergens_of(d)[i]) \in avoid

RECURSIVE FilterDishes(_, _)
FilterDishes(m, avoid) ==
    IF m = <<>> THEN <<>>
    ELSE (IF dish_allowed(Head(m), avoid) THEN <<Head(m)>> ELSE <<>>)
         \o FilterDishes(Tail(m), avoid)

\* "if pref.dietary": None and [] are both falsy
dietary_truthy(pref) == pref.dietary_given /\ pref.dietary # <<>>

\* lines 188-195: the dishes the concierge suggests
suggested_dishes(pref, m) ==
    IF dietary_truthy(pref)
    THEN FilterDishes(m, {lower(a) : a \in Range(pref.dietary)})
    ELSE Prefix(m, 3)

\* exps[:3]
suggested_exps(e) == Prefix(e, 3)

\* f"Welcome to the AR Hotel Universe{', ' + pref.language if pref.language else ''}!"
greeting(pref) ==
    IF pref.language # None /\ pref.language # ""
    THEN <<"Welcome to the AR Hotel Universe", ", ", pref.language, "!">>
    ELSE <<"Welcome to the AR Hotel Universe", "!">>

\* The concierge up to and including its first store read.
concierge(p, pref) ==
    /\ pc[p] = "idle"
    /\ op' = [op EXCEPT ![p] = "concierge"]
    /\ req' = [req EXCEPT ![p] = pref]
    /\ IF ~db
       THEN /\ pc' = [pc EXCEPT ![p] = "done"]
            /\ resp' = [resp EXCEPT ![p] = NotConfigured]
            /\ UNCHANGED menu
       ELSE /\ pc' = [pc EXCEPT ![p] = "exps"]
            /\ menu' = [menu EXCEPT ![p] = find_all(store, "dish")]
            /\ UNCHANGED resp
    /\ UNCHANGED <<db, store, existing, inserted>>

\* The concierge from its second store read to its return.
concierge_return(p) ==
    /\ pc[p] = "exps"
    /\ pc' = [pc EXCEPT ![p] = "done"]
    /\ resp' = [resp EXCEPT ![p] =
                  Ok([greeting |-> greeting(req[p]),
                      dish |-> suggested_dishes(req[p], menu[p]),
                      experience |-> suggested_exps(find_all(store, "experience"))])]
    /\ UNCHANGED <<db, store, op, req, existing, inserted, menu>>

(***************************************************************************)
(* The booking quote.                                                      *)
(***************************************************************************)
is_leap(y) == y % 4 = 0 /\ (y % 100 # 0 \/ y % 400 = 0)

days_in_month(y, m) ==
    IF m = 2 THEN (IF is_leap(y) THEN 29 ELSE 28)
    ELSE IF m \in {4, 6, 9, 11} THEN 30 ELSE 31

RECURSIVE days_before_month(_, _)
days_before_month(y, m) ==
    IF m <= 1 THEN 0 ELSE days_before_month(y, m - 1) + days_in_month(y, m - 1)

days_before_year(y) ==
    (y - 1) * 365 + ((y - 1) \div 4) - ((y - 1) \div 100) + ((y - 1) \div 400)

\* datetime.fromisoformat(s): ok is FALSE where it raises ValueError
fromisoformat(s) ==
    IF /\ s.fmt = "iso"
       /\ s.y >= 1 /\ s.y <= 9999
       /\ s.m >= 1 /\ s.m <= 12
       /\ s.d >= 1 /\ s.d <= days_in_month(s.y, s.m)
       /\ s.h >= 0 /\ s.h <= 23
    THEN [ok |-> TRUE,
          ordinal |-> days_before_year(s.y) + days_before_month(s.y, s.m) + s.d,
          hour |-> s.h]
    ELSE [ok |-> FALSE, ordinal |-> 0, hour |-> 0]

\* datetime.weekday(): Monday is 0, Sunday is 6
weekday(dt) == (dt.ordinal + 6) % 7

\* (d2 - d1).days: the floor of the difference in days
timedelta_days(d2, d1) ==
    ((d2.ordinal * 24 + d2.hour) - (d1.ordinal * 24 + d1.hour)) \div 24

\* nights_of without the floor of 1
nights_of_unclamped(d1, d2) == timedelta_days(d2, d1)

\* nights = max(1, (d2 - d1).days)
nights_of(d1, d2) == Max(1, timedelta_days(d2, d1))

base_rate == 500

\* weekend_boost = 1.1 if d1.weekday() >= 4 else 1.0, in thousandths
weekend_boost(d1) == IF weekday(d1) >= 4 THEN 1100 ELSE 1000

\* round(x, 2): thousandths to hundredths, ties to even
round2(x) ==
    LET q == x \div 10
        r == x % 10
    IN IF r > 5 \/ (r = 5 /\ q % 2 = 1) THEN q + 1 ELSE q

\* nightly_rate = round(base_rate * weekend_boost, 2), in hundredths
nightly_rate_of(d1) == round2(base_rate * weekend_boost(d1))

\* addon_price with no default for an unknown name
addon_price_no_default(a) ==
    CASE a = "flowers" -> 60
      [] a = "wine" -> 120
      [] a = "candlelight" -> 200
      [] OTHER -> 0

\* addon_map.get(a, 50)
addon_price(a) ==
    CASE a = "flowers" -> 60
      [] a = "wine" -> 120
      [] a = "candlelight" -> 200
      [] OTHER -> 50

\* [{"name": a, "price": addon_map.get(a, 50)} for a in (req.addons or [])]
addons_of(names) == [i \in DOMAIN names |-> [name |-> names[i], price |-> addon_price(names[i])]]

RECURSIVE sum_prices(_)
sum_prices(as) == IF as = <<>> THEN 0 ELSE Head(as).price + sum_prices(Tail(as))

\* total = round(nightly_rate * nights + sum(a["price"] for a in addons), 2), in hundredths
total_of(rate, nights, as) == round2(rate * 10 * nights + 1000 * sum_prices(as))

SundayHint == "Consider arriving Sunday night for better rates"

\* suggestion_of with >= in place of ==
suggestion_of_from_saturday(d1) == IF weekday(d1) >= 5 THEN SundayHint ELSE None

\* suggestion = "Consider arriving Sunday night ..." if d1.weekday() == 5 else None
suggestion_of(d1) == IF weekday(d1) = 5 THEN SundayHint ELSE None

\* quote_response with the dates parsed before the store check
quote_response_parse_first(dbv, r) ==
    LET d1 == fromisoformat(r.check_in)
        d2 == fromisoformat(r.check_out)
    IN IF ~d1.ok \/ ~d2.ok THEN InternalServerError
       ELSE IF ~dbv THEN NotConfigured
       ELSE LET rate == nightly_rate_of(d1)
                n == nights_of(d1, d2)
                as == addons_of(r.addons)
            IN Ok([nightly_rate |-> rate,
                   nights |-> n,
                   addons |-> as,
                   total |-> total_of(rate, n, as),
                   suggestion |-> suggestion_of(d1)])

\* The response of booking_quote for request r with the store handle set or not.
quote_response(dbv, r) ==
    IF ~dbv THEN NotConfigured
    ELSE LET d1 == fromisoformat(r.check_in)
             d2 == fromisoformat(r.check_out)
         IN IF ~d1.ok \/ ~d2.ok THEN InternalServerError
            ELSE LET rate == nightly_rate_of(d1)
                     n == nights_of(d1, d2)
                     as == addons_of(r.addons)
                 IN Ok([nightly_rate |-> rate,
                        nights |-> n,
                        addons |-> as,
                        total |-> total_of(rate, n, as),
                        suggestion |-> suggestion_of(d1)])

booking_quote(p, r) ==
    /\ pc[p] = "idle"
    /\ pc' = [pc EXCEPT ![p] = "done"]
    /\ op' = [op EXCEPT ![p] = "booking_quote"]
    /\ req' = [req EXCEPT ![p] = r]
    /\ resp' = [resp EXCEPT ![p] = quote_response(db, r)]
    /\ UNCHANGED <<db, store, existing, inserted, menu>>

(***************************************************************************)
(* Requests.                                                               *)
(***************************************************************************)
IsoDate(y, m, d, h) == [fmt |-> "iso", y |-> y, m |-> m, d |-> d, h |-> h]

\* a string that is no ISO date, such as "tomorrow"
JunkDate == [fmt |-> "junk", y |-> 0, m |-> 0, d |-> 0, h |-> 0]

\* "2024-01-01" .. "2024-01-<MaxDay>" at midnight and at noon ("...T12:00"), the
\* last day of 2023, the first of February, and four strings fromisoformat
\* rejects: "2024-02-30", "2023-02-29", "2024-13-01" and text that is no date
DateStrings ==
    {IsoDate(2024, 1, d, h) : d \in 1..MaxDay, h \in {0, 12}}
    \cup {IsoDate(2023, 12, 31, 0), IsoDate(2024, 2, 1, 0)}
    \cup {IsoDate(2024, 2, 30, 0), IsoDate(2023, 2, 29, 0), IsoDate(2024, 13, 1, 0), JunkDate}

AddonNames == {"flowers", "wine", "candlelight", "spa"}

AddonLists == UNION {[1..n -> AddonNames] : n \in 0..MaxAddons}

QuoteRequests ==
    [room_id : {None, "r1"}, check_in : DateStrings, check_out : DateStrings,
     guests : {1, 2}, addons : AddonLists]

\* the quotes asked for while other handlers run
QuoteSample ==
    { [room_id |-> None, check_in |-> IsoDate(2024, 1, 5, 0), check_out |-> IsoDate(2024, 1, 7, 0),
       guests |-> 1, addons |-> <<"candlelight">>],
      [room_id |-> "r1", check_in |-> JunkDate, check_out |-> IsoDate(2024, 1, 7, 0),
       guests |-> 2, addons |-> <<>>] }

DietaryTerms == {fish_lc, Fish_cap, dairy_lc}

DietaryLists == UNION {[1..n -> DietaryTerms] : n \in 0..MaxDietary}

Preferences ==
    {[dietary_given |-> FALSE, dietary |-> <<>>, language |-> None],
     [dietary_given |-> TRUE, dietary |-> <<Fish_cap>>, language |-> "fr"]}
    \cup {[dietary_given |-> TRUE, dietary |-> t, language |-> None] : t \in DietaryLists}

\* the preferences sent while other handlers run
PrefSample ==
    {[dietary_given |-> FALSE, dietary |-> <<>>, language |-> None],
     [dietary_given |-> TRUE, dietary |-> <<Fish_cap>>, language |-> "fr"]}

\* stored dishes beyond the fixtures: upper-case allergens, no allergens field
DishPool ==
    Range(dishes)
    \cup {[name |-> "Captain's Plate", category |-> "main", allergens |-> <<FISH_uc, Dairy_cap>>],
          [name |-> "Garden Bowl", category |-> "starter"]}

Menus == UNION {[1..n -> DishPool] : n \in 0..MaxMenu}

Next ==
    \E p \in Procs :
        \/ seed_rooms(p)
        \/ seed_dishes(p)
        \/ seed_experiences(p)
        \/ seed_insert(p)
        \/ \E v \in {None, "ocean"}, c \in {0, 3} : list_rooms(p, v, c)
        \/ \E c \in {None, "main"} : list_menu(p, c)
        \/ \E c \in {None, "spa"} : list_experiences(p, c)
        \/ \E pref \in PrefSample : concierge(p, pref)
        \/ concierge_return(p)
        \/ \E r \in QuoteSample : booking_quote(p, r)

Spec == Init /\ [][Next]_vars

(***************************************************************************)
(* Calls made one after the other: a handler runs only while no other      *)
(* call is inside one.                                                     *)
(***************************************************************************)
Quiet(p) == \A q \in Procs \ {p} : pc[q] \in {"idle", "done"}

SeqNext ==
    \E p \in Procs :
        \/ Quiet(p) /\ seed_rooms(p)
        \/ Quiet(p) /\ seed_dishes(p)
        \/ Quiet(p) /\ seed_experiences(p)
        \/ Quiet(p) /\ seed_insert(p)
        \/ Quiet(p) /\ \E v \in {None, "ocean"}, c \in {0, 3} : list_rooms(p, v, c)
        \/ Quiet(p) /\ \E c \in {None, "main"} : list_menu(p, c)
        \/ Quiet(p) /\ \E c \in {None, "spa"} : list_experiences(p, c)
        \/ Quiet(p) /\ \E pref \in PrefSample : concierge(p, pref)
        \/ Quiet(p) /\ concierge_return(p)
        \/ Quiet(p) /\ \E r \in QuoteSample : booking_quote(p, r)

SeqSpec == Init /\ [][SeqNext]_vars

(***************************************************************************)
(* The quote as a function of its request: one worker, every request.      *)
(***************************************************************************)
QuoteNext == pc[1] = "idle" /\ \E r \in QuoteRequests : booking_quote(1, r)

QuoteSpec == Init /\ [][QuoteNext]_vars

(***************************************************************************)
(* The concierge as a function of the preference and the stored dishes:    *)
(* one worker, the dish collection holding any menu.                       *)
(***************************************************************************)
ConciergeInit ==
    /\ db \in BOOLEAN
    /\ \E m \in Menus, e \in {<<>>, exps \o exps} :
          store = [c \in Collections |->
                      IF c = "dish" THEN m ELSE IF c = "experience" THEN e ELSE <<>>]
    /\ pc = [p \in Procs |-> "idle"]
    /\ op = [p \in Procs |-> "none"]
    /\ req = [p \in Procs |-> NoReq]
    /\ existing = [p \in Procs |-> 0]
    /\ inserted = [p \in Procs |-> 0]
    /\ menu = [p \in Procs |-> <<>>]
    /\ resp = [p \in Procs |-> NoResp]

ConciergeNext ==
    \/ pc[1] = "idle" /\ \E pref \in Preferences : concierge(1, pref)
    \/ concierge_return(1)

ConciergeSpec == ConciergeInit /\ [][ConciergeNext]_vars

(***************************************************************************)
(* Properties.                                                             *)
(***************************************************************************)
\* call p ran handler o to a 200 response
Returned(p, o) == pc[p] = "done" /\ op[p] = o /\ resp[p].status = 200

Occurrences(s, x) == Cardinality({i \in DOMAIN s : s[i] = x})

SeedTarget ==
    [seed_rooms |-> [coll |-> "room", fixtures |-> rooms],
     seed_dishes |-> [coll |-> "dish", fixtures |-> dishes],
     seed_experiences |-> [coll |-> "experience", fixtures |-> exps]]

\* the quote call of QuoteSpec answered 200
Quoted == Returned(1, "booking_quote")

CheckIn == fromisoformat(req[1].check_in)

CheckOut == fromisoformat(req[1].check_out)

\* once some seed call of a kind has returned, the collection is the fixture
\* list, one call reports the whole list inserted and every other reports 0
C1_Settled ==
    \A o \in SeedOps :
        LET ret == {p \in Procs : Returned(p, o)}
            t == SeedTarget[o]
        IN ret # {} =>
              /\ store[t.coll] = t.fixtures
              /\ Cardinality({p \in ret : resp[p].body.inserted = 2}) = 1
              /\ \A p \in ret : resp[p].body.inserted \in {0, 2}

\* a seed call that starts on a collection holding documents returns
\* inserted = 0 in that step and writes nothing; on an empty one it goes on to insert
C1_LaterCall ==
    \A p \in Procs : \A o \in SeedOps :
        (db /\ pc[p] = "idle" /\ pc'[p] # "idle" /\ op'[p] = o) =>
            /\ store' = store
            /\ IF store[SeedTarget[o].coll] = <<>>
               THEN pc'[p] = "insert"
               ELSE pc'[p] = "done" /\ resp'[p] = Ok([inserted |-> 0])

\* C1: with calls made one after the other on an empty store, the first seed
\* call of a kind inserts the whole fixture list and returns 2; every later
\* seed call of that kind returns inserted = 0 and leaves the collection as it was.
C1_SeedIdempotent == []C1_Settled /\ [][C1_LaterCall]_vars

C1_Witness ==
    \E p, q \in Procs :
        /\ Returned(p, "seed_rooms") /\ resp[p].body.inserted = 2
        /\ Returned(q, "seed_rooms") /\ resp[q].body.inserted = 0
        /\ store["room"] = rooms

\* C2: seed calls of one kind that each read a count of 0 all insert the whole
\* fixture list: each returns inserted = 2 and the collection holds every
\* fixture once per such call, so two racing calls leave the fixtures twice.
C2_RacingSeedsBothInsert ==
    \A o \in SeedOps :
        LET racers == {p \in Procs : Returned(p, o) /\ existing[p] = 0}
            t == SeedTarget[o]
        IN /\ \A p \in racers : resp[p].body.inserted = 2
           /\ \A i \in DOMAIN t.fixtures :
                 Occurrences(store[t.coll], t.fixtures[i]) >= Cardinality(racers)

C2_Witness ==
    \E p, q \in Procs :
        /\ p # q
        /\ Returned(p, "seed_rooms") /\ resp[p].body.inserted = 2
        /\ Returned(q, "seed_rooms") /\ resp[q].body.inserted = 2
        /\ Len(store["room"]) = 4
        /\ Occurrences(store["room"], rooms[1]) = 2
        /\ Occurrences(store["room"], rooms[2]) = 2

\* C3 as claimed: the nightly rate of a quote is 550.00 for a check-in on
\* Friday or Saturday and 500.00 for a check-in on any other weekday.
C3_RateFridaySaturdayOnly ==
    Quoted =>
        resp[1].body.nightly_rate = (IF weekday(CheckIn) \in {4, 5} THEN 55000 ELSE 50000)

\* C4: nights of a quote is the whole-day difference check_out - check_in when
\* that is at least 1, is 1 when check_out is the same day as check_in or
\* earlier, and is never below 1; every request with parseable dates is quoted.
C4_Nights ==
    (db /\ pc[1] = "done" /\ CheckIn.ok /\ CheckOut.ok) =>
        LET hours == (CheckOut.ordinal * 24 + CheckOut.hour) - (CheckIn.ordinal * 24 + CheckIn.hour)
            n == resp[1].body.nights
        IN /\ Quoted
           /\ n >= 1
           /\ hours >= 24 => (n * 24 <= hours /\ hours < (n + 1) * 24)
           /\ hours < 24 => n = 1
           /\ CheckOut.ordinal <= CheckIn.ordinal => n = 1

C4_Witness ==
    /\ Quoted
    /\ req[1].check_in = IsoDate(2024, 1, 5, 0)
    /\ req[1].check_out = IsoDate(2024, 1, 3, 0)
    /\ resp[1].body.nights = 1

RECURSIVE TablePriceSum(_)
TablePriceSum(names) ==
    IF names = <<>> THEN 0
    ELSE (IF Head(names) = "flowers" THEN 60
          ELSE IF Head(names) = "wine" THEN 120
          ELSE IF Head(names) = "candlelight" THEN 200
          ELSE 50) + TablePriceSum(Tail(names))

\* C5: the addons of a quote list the requested names in request order, one
\* entry each, priced flowers 60, wine 120, candlelight 200 and 50 otherwise;
\* total = nightly_rate x nights + the sum of those prices (in hundredths).
C5_AddonsAndTotal ==
    Quoted =>
        LET names == req[1].addons
            b == resp[1].body
        IN /\ Len(b.addons) = Len(names)
           /\ \A i \in DOMAIN names :
                 /\ b.addons[i].name = names[i]
                 /\ b.addons[i].price = TablePriceSum(<<names[i]>>)
           /\ b.total = b.nightly_rate * b.nights + 100 * TablePriceSum(names)
           /\ names = <<"wine", "wine">> => b.total - b.nightly_rate * b.nights = 24000
           /\ (/\ req[1].check_in = IsoDate(2024, 1, 5, 0)
               /\ req[1].check_out = IsoDate(2024, 1, 7, 0)
               /\ names = <<"candlelight">>) => b.total = 130000

C5_Witness ==
    /\ Quoted
    /\ req[1].check_in = IsoDate(2024, 1, 5, 0)
    /\ req[1].check_out = IsoDate(2024, 1, 7, 0)
    /\ req[1].addons = <<"candlelight">>
    /\ resp[1].body.nights = 2
    /\ resp[1].body.total = 130000

\* C6: the suggestion of a quote is the Sunday-arrival string exactly when
\* the check-in is a Saturday, and is None on every other weekday.
C6_SuggestionOnSaturdayOnly ==
    Quoted =>
        resp[1].body.suggestion =
            (IF weekday(CheckIn) = 5
             THEN "Consider arriving Sunday night for better rates"
             ELSE "None")

C6_Witness ==
    /\ Quoted
    /\ req[1].check_in = IsoDate(2024, 1, 6, 0)
    /\ resp[1].body.suggestion = "Consider arriving Sunday night for better rates"

IsLetter(c) == (c >= 65 /\ c <= 90) \/ (c >= 97 /\ c <= 122)

\* equal up to the case of letters
SameIgnoringCase(a, b) ==
    /\ Len(a) = Len(b)
    /\ \A i \in DOMAIN a :
          \/ a[i] = b[i]
          \/ IsLetter(a[i]) /\ IsLetter(b[i]) /\ (a[i] - b[i] = 32 \/ b[i] - a[i] = 32)

\* C7: with a non-empty dietary list the concierge suggests exactly the
\* stored dishes, in stored order and uncapped, none of whose allergens equals
\* a dietary term up to case; with an empty or absent one, the first 3 stored dishes.
C7_DishSelection ==
    Returned(1, "concierge") =>
        LET pref == req[1]
            stored == store["dish"]
            Clear(d) ==
                \/ "allergens" \notin DOMAIN d
                \/ \A i \in DOMAIN d.allergens : \A j \in DOMAIN pref.dietary :
                      ~SameIgnoringCase(d.allergens[i], pref.dietary[j])
        IN IF pref.dietary_given /\ Len(pref.dietary) > 0
           THEN resp[1].body.dish = SelectSeq(stored, Clear)
           ELSE /\ Len(resp[1].body.dish) = (IF Len(stored) < 3 THEN Len(stored) ELSE 3)
                /\ \A i \in DOMAIN resp[1].body.dish : resp[1].body.dish[i] = stored[i]

C7_Witness ==
    /\ Returned(1, "concierge")
    /\ req[1].dietary = <<fish_lc>>
    /\ Len(store["dish"]) = 4
    /\ store["dish"][1].name = "Captain's Plate"
    /\ store["dish"][2].name = "Galactic Nigiri"
    /\ Len(resp[1].body.dish) = 2

\* C8 as claimed: a quote request with an unparseable date, the store being
\* configured, is answered with a 4xx status, and with no quote.
C8_BadDateIsClientError ==
    (db /\ pc[1] = "done" /\ (~CheckIn.ok \/ ~CheckOut.ok)) =>
        /\ resp[1].status >= 400 /\ resp[1].status <= 499
        /\ resp[1].body = <<>>

\* C9: with the store handle unset every handler ends at once with 500
\* "Database not configured": no call is ever past its first step, no count or
\* snapshot was read, nothing was written, and a quote with a bad date gets
\* the same answer.
C9_NotConfigured ==
    ~db =>
        /\ store = [c \in Collections |-> <<>>]
        /\ \A p \in Procs :
              /\ pc[p] \in {"idle", "done"}
              /\ pc[p] = "done" =>
                    resp[p] = [status |-> 500, detail |-> "Database not configured", body |-> <<>>]
              /\ existing[p] = 0 /\ inserted[p] = 0 /\ menu[p] = <<>>

C9_Witness ==
    /\ ~db
    /\ \E p, q, r \in Procs :
          /\ pc[p] = "done" /\ op[p] = "booking_quote" /\ req[p].check_in = JunkDate
          /\ resp[p].status = 500 /\ resp[p].detail = "Database not configured"
          /\ pc[q] = "done" /\ op[q] = "concierge"
          /\ pc[r] = "done" /\ op[r] = "seed_dishes"

\* a collection holds nothing but fixtures of its own kind
C10_OnlyFixturesStored ==
    \A o \in SeedOps :
        \A i \in DOMAIN store[SeedTarget[o].coll] :
            store[SeedTarget[o].coll][i] \in Range(SeedTarget[o].fixtures)

\* a step that changes a collection is an insert turn of a seed call of that
\* collection's kind; a step of any other handler changes no collection
C10_OnlySeedWrites ==
    /\ \A o \in SeedOps :
          store'[SeedTarget[o].coll] # store[SeedTarget[o].coll] =>
              \E p \in Procs : op[p] = o /\ pc[p] = "insert" /\ inserted'[p] = inserted[p] + 1
    /\ \A p \in Procs :
          (pc'[p] # pc[p] /\ op'[p] \notin SeedOps) => store' = store

\* C10: only seeding writes: list, concierge and quote calls leave the three
\* collections unchanged, no preference or booking request is ever stored, and
\* a seed call changes only the collection of its own kind.
C10_OnlySeedingWrites == []C10_OnlyFixturesStored /\ [][C10_OnlySeedWrites]_vars

C10_Witness ==
    \E p, q, r \in Procs :
        /\ Returned(p, "seed_dishes") /\ resp[p].body.inserted = 2
        /\ Returned(q, "concierge")
        /\ Returned(r, "booking_quote")
        /\ store = [c \in Collections |-> IF c = "dish" THEN dishes ELSE <<>>]
====
